---- MODULE Spec2Model ----
(***************************************************************************)
(* Watchdog Validator: the validation-and-quarantine engine of             *)
(* src/watchdog_validator.py (class WatchdogValidator).                    *)
(*                                                                         *)
(* One session is one WatchdogValidator object bound to one DataFrame.     *)
(* The variables are the object's fields; there is one action per public   *)
(* method.  The checks themselves are delegated by the code to the Great   *)
(* Expectations validator it holds in self.validator; the part of that     *)
(* library the methods call is modelled by the operators of the section    *)
(* "The expectation library", each next to the call it stands for:         *)
(*   - an expect_* call evaluates the expectation at once and raises when  *)
(*     it cannot be evaluated (absent column, no bound given); only an     *)
(*     expectation that was evaluated is stored in the suite;              *)
(*   - the suite holds one expectation per (expectation type, column): a   *)
(*     second one of the same type on the same column replaces the first,  *)
(*     in place;                                                           *)
(*   - column-map expectations other than not-null skip null values;       *)
(*   - validate() lists the unexpected row labels of a failed expectation  *)
(*     only in the result format that carries unexpected_index_list; the   *)
(*     code reads the list with an empty default (line 226), so both       *)
(*     formats are sessions of the model.                                  *)
(***************************************************************************)
EXTENDS Integers, Sequences, FiniteSets, TLC

VARIABLES
    df,               \* self.df: the bound DataFrame (never assigned after __init__)
    result_format,    \* the library's result format for validate(): "COMPLETE" or "BASIC"
    validator,        \* self.validator: None, or the library validator with its suite
    results,          \* self.results: None, or the last validate() result
    bad_indices,      \* self.bad_indices
    failure_details,  \* self.failure_details: row label -> list of messages
    df_clean,         \* self.df_clean: None, or a DataFrame
    df_failed,        \* self.df_failed: None, or a DataFrame
    ret,              \* the last method call: its arguments, what it raised or returned
    session_state     \* history of the calls (not a field of the object), see Init

vars == <<df, result_format, validator, results, bad_indices, failure_details,
          df_clean, df_failed, ret, session_state>>

(***************************************************************************)
(* Bounds of the model.                                                    *)
(***************************************************************************)
MaxRows == 2     \* rows of the bound DataFrame
MaxRules == 2    \* expectations held by the suite

(***************************************************************************)
(* Values.                                                                 *)
(***************************************************************************)
\* Python's None, as the value of an object field.
None == [none |-> TRUE]

\* A null cell (NaN/None) and an omitted numeric argument; a present number v is {v}.
Null == {}

Num(v) == {v}

Val(c) == CHOOSE v \in c : TRUE

\* The schema of the DataFrames of the model, in column order.
Columns == <<"Price">>

ColumnSet == {Columns[k] : k \in 1..Len(Columns)}

\* The column names a rule may be given: those of the schema and one that is absent.
RuleColumns == ColumnSet \cup {"Quantity"}

\* The numbers a cell may hold.
CellValues == {1, 2}

Rows == [ColumnSet -> {Null} \cup {Num(v) : v \in CellValues}]

\* The first label of the DataFrame's index: 0 is the RangeIndex pandas gives
\* by default, 1 an index read from a 1-based identifier column
\* (from_csv(path, index_col=...), lines 39-51).
IndexStarts == {0, 1}

\* The arguments the callers pass.  <<column, min_value, max_value>> of
\* add_price_validation (min_value at its default, 0) and of
\* add_custom_range_validation; the column of add_not_null_validation and of
\* add_unique_validation; <<column, allowed_values>> of add_set_validation.
PriceArgs == {<<"Price", Num(0), Null>>, <<"Price", Num(0), Num(0)>>,
              <<"Price", Num(0), Num(1)>>, <<"Quantity", Num(0), Null>>}

RangeArgs == {<<"Price", Null, Null>>, <<"Price", Null, Num(0)>>,
              <<"Price", Num(2), Null>>, <<"Quantity", Null, Num(0)>>}

SetArgs == {<<"Price", {1}>>, <<"Quantity", {1}>>}

DataFrames ==
    { [columns |-> Columns,
       index |-> [k \in 1..Len(d) |-> s + k - 1],
       data |-> d] :
        s \in IndexStarts, d \in UNION {[1..n -> Rows] : n \in 0..MaxRows} }

\* pd.DataFrame(): no columns, no rows (line 278).
EmptyDataFrame == [columns |-> <<>>, index |-> <<>>, data |-> <<>>]

\* len(frame)
len(frame) == Len(frame.data)

IndexSet(frame) == {frame.index[k] : k \in 1..Len(frame.index)}

\* list(a set of small non-negative integers): CPython iterates it in increasing order.
RECURSIVE list(_)
list(S) ==
    IF S = {} THEN <<>>
    ELSE LET m == CHOOSE x \in S : \A y \in S : x <= y
         IN <<m>> \o list(S \ {m})

(***************************************************************************)
(* The expectation library (great_expectations), as the methods use it.    *)
(***************************************************************************)
Between == "expect_column_values_to_be_between"

NotNull == "expect_column_values_to_not_be_null"

Unique == "expect_column_values_to_be_unique"

InSet == "expect_column_values_to_be_in_set"

ExpectationConfig(type, column, min_value, max_value, value_set) ==
    [expectation_type |-> type, column |-> column,
     min_value |-> min_value, max_value |-> max_value, value_set |-> value_set]

\* Faulty variant of Unexpected: of the rows sharing a value, the first is not reported.
Unexpected_LaterOnly(frame, cfg) ==
    LET cell(i) == frame.data[i][cfg.column]
        n == len(frame)
    IN  IF cfg.expectation_type = "expect_column_values_to_not_be_null" THEN
            {i \in 1..n : cell(i) = {}}
        ELSE IF cfg.expectation_type = "expect_column_values_to_be_between" THEN
            {i \in 1..n : /\ cell(i) # {}
                          /\ \/ cfg.min_value # {} /\ Val(cell(i)) < Val(cfg.min_value)
                             \/ cfg.max_value # {} /\ Val(cell(i)) > Val(cfg.max_value)}
        ELSE IF cfg.expectation_type = "expect_column_values_to_be_unique" THEN
            {i \in 1..n : /\ cell(i) # {}
                          /\ \E j \in 1..(i - 1) : cell(j) = cell(i)}
        ELSE
            {i \in 1..n : cell(i) # {} /\ Val(cell(i)) \notin cfg.value_set}

\* The rows (positions 1..len) a column-map expectation finds unexpected.
Unexpected(frame, cfg) ==
    LET cell(i) == frame.data[i][cfg.column]
        n == len(frame)
    IN  IF cfg.expectation_type = NotNull THEN
            {i \in 1..n : cell(i) = Null}
        ELSE IF cfg.expectation_type = Between THEN
            {i \in 1..n : /\ cell(i) # Null
                          /\ \/ cfg.min_value # Null /\ Val(cell(i)) < Val(cfg.min_value)
                             \/ cfg.max_value # Null /\ Val(cell(i)) > Val(cfg.max_value)}
        ELSE IF cfg.expectation_type = Unique THEN
            {i \in 1..n : /\ cell(i) # Null
                          /\ \E j \in 1..n : j # i /\ cell(j) = cell(i)}
        ELSE
            {i \in 1..n : cell(i) # Null /\ Val(cell(i)) \notin cfg.value_set}

HasColumn(frame, column) == column \in {frame.columns[k] : k \in 1..Len(frame.columns)}

\* Faulty variant of ExpectRaises: the column is not looked up when the expectation is stored.
ExpectRaises_NoColumnCheck(frame, cfg) ==
    IF cfg.expectation_type = "expect_column_values_to_be_between"
       /\ cfg.min_value = {} /\ cfg.max_value = {}
        THEN "ValueError: min_value and max_value cannot both be None"
    ELSE ""

\* What an expect_* call raises ("" when it returns): the expectation is evaluated
\* against the batch at the call, outside validate()'s exception handling.
ExpectRaises(frame, cfg) ==
    IF cfg.expectation_type = Between /\ cfg.min_value = Null /\ cfg.max_value = Null
        THEN "ValueError: min_value and max_value cannot both be None"
    ELSE IF ~HasColumn(frame, cfg.column)
        THEN "MetricResolutionError: the column does not exist"
    ELSE ""

\* Two expectations of the same type on the same column.
SameDomain(a, b) == a.expectation_type = b.expectation_type /\ a.column = b.column

\* The suite after an evaluated expectation is stored: it replaces the one of the
\* same type on the same column, or is appended.
AddExpectation(suite, cfg) ==
    LET same == {k \in 1..Len(suite) : SameDomain(suite[k], cfg)}
    IN  IF same = {} THEN Append(suite, cfg)
        ELSE [k \in 1..Len(suite) |-> IF k \in same THEN cfg ELSE suite[k]]

\* The labels of the unexpected rows, in row order.
UnexpectedIndexList(frame, cfg) ==
    LET l == list(Unexpected(frame, cfg))
    IN  [k \in 1..Len(l) |-> frame.index[l[k]]]

\* One entry of validate()['results'].  validate() catches what the evaluation
\* raises and reports it as a failed result with an empty 'result'.
ExpectationResult(frame, format, cfg) ==
    IF ~HasColumn(frame, cfg.column) THEN
        [expectation_config |-> cfg, success |-> FALSE, result |-> <<>>]
    ELSE
        [expectation_config |-> cfg,
         success |-> Unexpected(frame, cfg) = {},
         result |-> IF format = "COMPLETE"
                      THEN [unexpected_index_list |-> UnexpectedIndexList(frame, cfg)]
                      ELSE [unexpected_count |-> Cardinality(Unexpected(frame, cfg))]]

\* validator.validate(): one result per expectation of the suite, in suite order.
Validate(frame, format, suite) ==
    LET rs == [k \in 1..Len(suite) |-> ExpectationResult(frame, format, suite[k])]
    IN  [success |-> \A k \in 1..Len(rs) : rs[k].success,
         results |-> rs]

(***************************************************************************)
(* The session.                                                            *)
(***************************************************************************)
\* Faulty variant of InitialFrame: the results initialised to empty frames.
InitialFrame_Empty == EmptyDataFrame

\* self.df_clean = None, self.df_failed = None (lines 33-34).
InitialFrame == None

\* session_state records which calls have returned so far: "Created" until an
\* add_* call has returned, "RulesConfigured" until a run_validation call has
\* returned, "Validated" from then on.
Init ==
    /\ df \in DataFrames
    /\ result_format \in {"COMPLETE", "BASIC"}
    /\ validator = None
    /\ results = None
    /\ bad_indices = {}
    /\ failure_details = <<>>
    /\ df_clean = InitialFrame
    /\ df_failed = InitialFrame
    /\ ret = [op |-> "__init__", args |-> <<>>, raised |-> "", value |-> None]
    /\ session_state = "Created"

Returned(op, args, value) == [op |-> op, args |-> args, raised |-> "", value |-> value]

Raised(op, args, exception) == [op |-> op, args |-> args, raised |-> exception, value |-> None]

\* The suite of self.validator; _initialize_validator creates it empty.
Suite == IF validator = None THEN <<>> ELSE validator.suite

\* Faulty variant of Expect: registering a rule discards the results of the last run.
Expect_DropsResults(op, args, cfg) ==
    LET exc == ExpectRaises(df, cfg)
        suite == IF exc = "" THEN AddExpectation(Suite, cfg) ELSE Suite
    IN  /\ validator' = [suite |-> suite]
        /\ ret' = IF exc = "" THEN Returned(op, args, None) ELSE Raised(op, args, exc)
        /\ session_state' = IF exc = "" /\ session_state = "Created"
                              THEN "RulesConfigured" ELSE session_state
        /\ df_clean' = None
        /\ df_failed' = None
        /\ UNCHANGED <<df, result_format, results, bad_indices, failure_details>>

\* The common body of the add_* methods: initialize the validator when there is
\* none (`if self.validator is None: self._initialize_validator()`), then call
\* the expectation method on it; what it raises propagates to the caller.
Expect(op, args, cfg) ==
    LET exc == ExpectRaises(df, cfg)
        suite == IF exc = "" THEN AddExpectation(Suite, cfg) ELSE Suite
    IN  /\ validator' = [suite |-> suite]
        /\ ret' = IF exc = "" THEN Returned(op, args, None) ELSE Raised(op, args, exc)
        /\ session_state' = IF exc = "" /\ session_state = "Created"
                              THEN "RulesConfigured" ELSE session_state
        /\ UNCHANGED <<df, result_format, results, bad_indices, failure_details,
                       df_clean, df_failed>>

add_price_validation(column, min_value, max_value) ==
    LET args == [column |-> column, min_value |-> min_value, max_value |-> max_value]
    IN  IF max_value # Null /\ Val(max_value) > 0
            THEN Expect("add_price_validation", args,
                        ExpectationConfig(Between, column, min_value, max_value, {}))
            ELSE Expect("add_price_validation", args,
                        ExpectationConfig(Between, column, min_value, Null, {}))

add_not_null_validation(column) ==
    Expect("add_not_null_validation", [column |-> column],
           ExpectationConfig(NotNull, column, Null, Null, {}))

add_unique_validation(column) ==
    Expect("add_unique_validation", [column |-> column],
           ExpectationConfig(Unique, column, Null, Null, {}))

add_set_validation(column, allowed_values) ==
    Expect("add_set_validation", [column |-> column, allowed_values |-> allowed_values],
           ExpectationConfig(InSet, column, Null, Null, allowed_values))

add_custom_range_validation(column, min_value, max_value) ==
    Expect("add_custom_range_validation",
           [column |-> column, min_value |-> min_value, max_value |-> max_value],
           ExpectationConfig(Between, column, min_value, max_value, {}))

format_failure_message(expectation_type, column) ==
    IF expectation_type = NotNull THEN column \o " is null"
    ELSE IF expectation_type = Between THEN column \o " out of range"
    ELSE IF expectation_type = Unique THEN column \o " is not unique"
    ELSE column \o " not in allowed set"

\* res['result'].get('unexpected_index_list', [])
FailedIndexList(res) ==
    IF "unexpected_index_list" \in DOMAIN res.result
        THEN res.result.unexpected_index_list
        ELSE <<>>

\* for idx in failed_index_list: ... self.failure_details[idx].append(failure_message)
RECURSIVE AppendMessage(_, _, _)
AppendMessage(details, failed_index_list, failure_message) ==
    IF failed_index_list = <<>> THEN details
    ELSE LET idx == Head(failed_index_list)
             d == IF idx \in DOMAIN details
                    THEN [details EXCEPT ![idx] = Append(@, failure_message)]
                    ELSE details @@ (idx :> <<failure_message>>)
         IN  AppendMessage(d, Tail(failed_index_list), failure_message)

\* for res in all_results: if not res['success']: ...
RECURSIVE Aggregate(_, _, _)
Aggregate(all_results, bad, details) ==
    IF all_results = <<>> THEN [bad_indices |-> bad, failure_details |-> details]
    ELSE LET res == Head(all_results)
         IN  IF res.success THEN Aggregate(Tail(all_results), bad, details)
             ELSE LET failed_index_list == FailedIndexList(res)
                      failure_message ==
                          format_failure_message(res.expectation_config.expectation_type,
                                                 res.expectation_config.column)
                  IN  Aggregate(Tail(all_results),
                                bad \cup {failed_index_list[k] : k \in 1..Len(failed_index_list)},
                                AppendMessage(details, failed_index_list, failure_message))

\* Faulty variant of ResetBadIndices: the rows flagged by the previous run are kept.
ResetBadIndices_Kept == bad_indices

\* self.bad_indices = set() (line 219)
ResetBadIndices == {}

\* Faulty variant of ResetFailureDetails: the messages of the previous run are kept.
ResetFailureDetails_Kept == failure_details

\* self.failure_details = {} (line 220)
ResetFailureDetails == <<>>

\* '; '.join(messages)
RECURSIVE join(_)
join(messages) ==
    IF Len(messages) = 1 THEN messages[1]
    ELSE messages[1] \o "; " \o join(Tail(messages))

\* self.df.iloc[positions] raises IndexError for a position outside the frame.
IlocRaises(frame, positions) ==
    \E k \in 1..Len(positions) : positions[k] >= len(frame)

\* self.df.iloc[positions]: the rows AT the given 0-based positions.
iloc(frame, positions) ==
    [columns |-> frame.columns,
     index |-> [k \in 1..Len(positions) |-> frame.index[positions[k] + 1]],
     data |-> [k \in 1..Len(positions) |-> frame.data[positions[k] + 1]]]

\* The positions (1..len) of the rows whose label is not among the given ones.
RECURSIVE Kept(_, _, _)
Kept(frame, labels, k) ==
    IF k > len(frame) THEN <<>>
    ELSE (IF frame.index[k] \in labels THEN <<>> ELSE <<k>>) \o Kept(frame, labels, k + 1)

\* self.df.drop(index=labels): the rows whose LABEL is not among the given ones.
drop(frame, labels) ==
    LET keep == Kept(frame, {labels[k] : k \in 1..Len(labels)}, 1)
    IN  [columns |-> frame.columns,
         index |-> [k \in 1..Len(keep) |-> frame.index[keep[k]]],
         data |-> [k \in 1..Len(keep) |-> frame.data[keep[k]]]]

\* The failed DataFrame of _quarantine_data (lines 272-278).
FailedFrame(frame, bad, details) ==
    IF bad # {} THEN
        LET f == iloc(frame, list(bad))
            reason(x) == IF x \in DOMAIN details THEN join(details[x]) ELSE "Unknown"
        IN  [columns |-> Append(f.columns, "Failure_Reason"),
             index |-> f.index,
             data |-> [k \in 1..Len(f.data) |->
                          f.data[k] @@ ("Failure_Reason" :> reason(f.index[k]))]]
    ELSE EmptyDataFrame

\* Faulty variant of CleanFrame: the result of drop() is discarded.
CleanFrame_NoDrop(frame, bad) == frame

\* Faulty variant of CleanFrame: the kept rows are relabelled 0..n-1.
CleanFrame_ResetIndex(frame, bad) ==
    LET f == drop(frame, list(bad))
    IN  [f EXCEPT !.index = [k \in 1..Len(f.index) |-> k - 1]]

\* The clean DataFrame of _quarantine_data (line 281).
CleanFrame(frame, bad) == drop(frame, list(bad))

\* Faulty variant of PassRate: a fraction of 1 instead of a percentage.
PassRate_Fraction(clean_rows, total_rows) ==
    IF total_rows > 0 THEN [num |-> clean_rows, den |-> total_rows]
    ELSE [num |-> 0, den |-> 1]

\* Faulty variant of PassRate: an empty dataset passes in full.
PassRate_EmptyPasses(clean_rows, total_rows) ==
    IF total_rows > 0 THEN [num |-> clean_rows * 100, den |-> total_rows]
    ELSE [num |-> 100, den |-> 1]

\* len(df_clean) / len(df) * 100 if len(df) > 0 else 0, as the fraction num/den.
PassRate(clean_rows, total_rows) ==
    IF total_rows > 0 THEN [num |-> clean_rows * 100, den |-> total_rows]
    ELSE [num |-> 0, den |-> 1]

\* The summary, without its 'results' entry (self.results, the variable results).
generate_summary(res, frame, clean, failed) ==
    [success |-> res.success,
     total_rows |-> len(frame),
     clean_rows |-> len(clean),
     failed_rows |-> len(failed),
     pass_rate |-> PassRate(len(clean), len(frame))]

NoRules == "No validation rules configured. Add rules before running validation."

run_validation ==
    IF validator = None THEN
        /\ ret' = Raised("run_validation", <<>>, NoRules)
        /\ UNCHANGED <<df, result_format, validator, results, bad_indices, failure_details,
                       df_clean, df_failed, session_state>>
    ELSE
        LET res == Validate(df, result_format, validator.suite)
            agg == Aggregate(res.results, ResetBadIndices, ResetFailureDetails)
        IN  /\ results' = res
            /\ bad_indices' = agg.bad_indices
            /\ failure_details' = agg.failure_details
            /\ IF agg.bad_indices # {} /\ IlocRaises(df, list(agg.bad_indices)) THEN
                   /\ ret' = Raised("run_validation", <<>>,
                                    "IndexError: positional indexers are out-of-bounds")
                   /\ UNCHANGED <<df_clean, df_failed, session_state>>
               ELSE
                   LET failed == FailedFrame(df, agg.bad_indices, agg.failure_details)
                       clean == CleanFrame(df, agg.bad_indices)
                   IN  /\ df_failed' = failed
                       /\ df_clean' = clean
                       /\ ret' = Returned("run_validation", <<>>,
                                          generate_summary(res, df, clean, failed))
                       /\ session_state' = "Validated"
            /\ UNCHANGED <<df, result_format, validator>>

NotRun == "Validation has not been run yet. Call run_validation() first."

get_clean_data ==
    /\ ret' = IF df_clean = None THEN Raised("get_clean_data", <<>>, NotRun)
              ELSE Returned("get_clean_data", <<>>, df_clean)
    /\ UNCHANGED <<df, result_format, validator, results, bad_indices, failure_details,
                   df_clean, df_failed, session_state>>

get_failed_data ==
    /\ ret' = IF df_failed = None THEN Raised("get_failed_data", <<>>, NotRun)
              ELSE Returned("get_failed_data", <<>>, df_failed)
    /\ UNCHANGED <<df, result_format, validator, results, bad_indices, failure_details,
                   df_clean, df_failed, session_state>>

\* The two files written are outside the session; the returned counts are kept.
save_results ==
    /\ ret' = IF df_clean = None \/ df_failed = None THEN Raised("save_results", <<>>, NotRun)
              ELSE Returned("save_results", <<>>,
                            [clean_rows |-> len(df_clean), failed_rows |-> len(df_failed)])
    /\ UNCHANGED <<df, result_format, validator, results, bad_indices, failure_details,
                   df_clean, df_failed, session_state>>

\* The sessions of the model register at most MaxRules expectations.
SuiteBounded == Len(Suite') <= MaxRules

AddPrice ==
    \E a \in PriceArgs : add_price_validation(a[1], a[2], a[3]) /\ SuiteBounded

AddNotNull == \E c \in RuleColumns : add_not_null_validation(c) /\ SuiteBounded

AddUnique == \E c \in RuleColumns : add_unique_validation(c) /\ SuiteBounded

AddSet == \E a \in SetArgs : add_set_validation(a[1], a[2]) /\ SuiteBounded

AddCustomRange ==
    \E a \in RangeArgs : add_custom_range_validation(a[1], a[2], a[3]) /\ SuiteBounded

Next ==
    \/ AddPrice
    \/ AddNotNull
    \/ AddUnique
    \/ AddSet
    \/ AddCustomRange
    \/ run_validation
    \/ get_clean_data
    \/ get_failed_data
    \/ save_results

Spec == Init /\ [][Next]_vars

(***************************************************************************)
(* Properties.                                                             *)
(***************************************************************************)
AddOps == {"add_price_validation", "add_not_null_validation", "add_unique_validation",
           "add_set_validation", "add_custom_range_validation"}

Getters == {"get_clean_data", "get_failed_data", "save_results"}

\* The last call was a run_validation that returned its summary.
RunReturned == ret.op = "run_validation" /\ ret.raised = ""

\* The expectations the last validate() evaluated.
ResultSuite == [k \in 1..Len(results.results) |-> results.results[k].expectation_config]

Range(seq) == {seq[k] : k \in 1..Len(seq)}

Message(cfg) == format_failure_message(cfg.expectation_type, cfg.column)

Position(messages, m) == CHOOSE k \in 1..Len(messages) : messages[k] = m

\* pass_rate compared with a whole number, by cross-multiplication.
RateEquals(rate, n) == rate.num = n * rate.den

RateAtLeast(rate, n) == rate.num >= n * rate.den

RateAtMost(rate, n) == rate.num <= n * rate.den

\* C1: partition completeness.  After run_validation has returned on a session
\* with at least one rule, the row labels of the clean frame and of the failed
\* frame are disjoint and together are the row labels of the dataset.
C1_PartitionComplete ==
    (RunReturned /\ Len(Suite) > 0) =>
        /\ IndexSet(df_clean) \cap IndexSet(df_failed) = {}
        /\ IndexSet(df_clean) \cup IndexSet(df_failed) = IndexSet(df)

\* C2: in the summary every run_validation returns, total_rows is
\* clean_rows + failed_rows.
C2_TotalIsCleanPlusFailed ==
    RunReturned => ret.value.total_rows = ret.value.clean_rows + ret.value.failed_rows

\* C2 witness: a run over two rules that put one row of two in each bucket.
C2_Witness ==
    /\ RunReturned
    /\ Len(Suite) = 2
    /\ ret.value.clean_rows = 1
    /\ ret.value.failed_rows = 1

\* C3: the summary's success flag is true exactly when no row failed.
C3_SuccessIffNoFailedRows ==
    RunReturned => (ret.value.success <=> ret.value.failed_rows = 0)

\* C4, as claimed: 0 <= pass_rate <= 100, and pass_rate = 100 exactly when the
\* failed set is empty, for every dataset, the empty one included.
C4_PassRateBound ==
    RunReturned =>
        /\ RateAtLeast(ret.value.pass_rate, 0)
        /\ RateAtMost(ret.value.pass_rate, 100)
        /\ RateEquals(ret.value.pass_rate, 100) <=> len(df_failed) = 0

\* C4, amended: 0 <= pass_rate <= 100; for a dataset with at least one row
\* pass_rate = 100 exactly when the failed set is empty; for the empty dataset
\* pass_rate is 0 and the failed set is empty.
C4_PassRateBoundNonEmpty ==
    RunReturned =>
        /\ RateAtLeast(ret.value.pass_rate, 0)
        /\ RateAtMost(ret.value.pass_rate, 100)
        /\ len(df) > 0 => (RateEquals(ret.value.pass_rate, 100) <=> len(df_failed) = 0)
        /\ len(df) = 0 => (RateEquals(ret.value.pass_rate, 0) /\ len(df_failed) = 0)

\* C4 witness: a run that failed one row of two (pass_rate 50).
C4_Witness ==
    /\ RunReturned
    /\ len(df) = 2
    /\ len(df_failed) = 1
    /\ RateEquals(ret.value.pass_rate, 50)

\* C5: idempotence of run.  A run_validation called right after a run_validation
\* that returned leaves the clean frame, the failed frame (rows and
\* Failure_Reason), bad_indices and the per-row messages as they were and returns
\* the same summary.
C5_RunIdempotent ==
    [][(RunReturned /\ ret'.op = "run_validation") =>
          /\ ret' = ret
          /\ df_clean' = df_clean
          /\ df_failed' = df_failed
          /\ bad_indices' = bad_indices
          /\ failure_details' = failure_details]_vars

\* C5 witness: a run returned with a failed row that carries two messages; a
\* second run from here would show any message carried over.
C5_Witness ==
    /\ RunReturned
    /\ len(df_failed) > 0
    /\ \E x \in DOMAIN failure_details :
          /\ Len(failure_details[x]) = 2
          /\ x \in IndexSet(df_failed)

\* C6: monotonicity.  When one more rule has been registered since the last run,
\* the run that returns next flags every row the last run flagged.
C6_FailedSetGrows ==
    [][(/\ results # None
        /\ ret.op \in AddOps
        /\ ret.raised = ""
        /\ \E k \in 1..Len(Suite) : Suite = AddExpectation(ResultSuite, Suite[k])
        /\ ret'.op = "run_validation"
        /\ ret'.raised = "") =>
          bad_indices \subseteq bad_indices']_vars

\* C7: message aggregation order.  When a rule B, none of the rules of the last
\* run, has been registered since that run, the run that returns next lists, for
\* every row, the message of each rule registered before that last run ahead of
\* B's message.
C7_MessagesInRegistrationOrder ==
    [][(/\ results # None
        /\ ret.op \in AddOps
        /\ ret.raised = ""
        /\ ret'.op = "run_validation"
        /\ ret'.raised = "") =>
          \A b \in 1..Len(Suite) :
              (/\ Suite[b] \notin Range(ResultSuite)
               /\ Suite = AddExpectation(ResultSuite, Suite[b])) =>
                  \A x \in DOMAIN failure_details' :
                      \A a \in 1..Len(Suite) :
                          (/\ Suite[a] \in Range(ResultSuite)
                           /\ Message(Suite[a]) \in Range(failure_details'[x])
                           /\ Message(Suite[b]) \in Range(failure_details'[x])) =>
                              Position(failure_details'[x], Message(Suite[a]))
                                  < Position(failure_details'[x], Message(Suite[b]))]_vars

\* C8: run_validation on a session whose rule set is empty raises the no-rules
\* error and produces no results.
C8_NoRulesRaises ==
    (ret.op = "run_validation" /\ Len(Suite) = 0) =>
        /\ ret.raised = NoRules
        /\ results = None
        /\ df_clean = None
        /\ df_failed = None

\* C9: until a run_validation has returned, get_clean_data, get_failed_data and
\* save_results raise the not-yet-validated error and return nothing.
C9_NotYetValidated ==
    (session_state # "Validated" /\ ret.op \in Getters) =>
        /\ ret.raised = NotRun
        /\ ret.value = None

\* C9 witness: a getter called after rules were added and a run attempt failed.
C9_Witness ==
    /\ session_state = "RulesConfigured"
    /\ results # None
    /\ ret.op = "get_failed_data"
    /\ ret.raised = NotRun

\* C10: a rule on a column the dataset does not have is reported: the add_* call
\* raises, the rule is in no rule set, and no validation result is computed from it.
C10_AbsentColumnReported ==
    /\ (ret.op \in AddOps /\ ~HasColumn(df, ret.args.column)) => ret.raised # ""
    /\ \A k \in 1..Len(Suite) : HasColumn(df, Suite[k].column)
    /\ results # None => \A k \in 1..Len(ResultSuite) : HasColumn(df, ResultSuite[k].column)

\* C10 witness: on a validated session, add_not_null_validation of an absent
\* column raised.
C10_Witness ==
    /\ session_state = "Validated"
    /\ ret.op = "add_not_null_validation"
    /\ ~HasColumn(df, ret.args.column)
    /\ ret.raised # ""

\* The DataFrame's cell at position i (1..len) of the column.
Cell(frame, column, i) == frame.data[i][column]

\* The labels of the rows at the given positions.
Labels(frame, positions) == {frame.index[i] : i \in positions}

\* The row labels the last validate() reported for the k-th expectation.
Reported(k) == Range(FailedIndexList(results.results[k]))

\* C11: when a run flags no row, the failed frame is empty and still has the
\* dataset's columns followed by the Failure_Reason column.
C11_EmptyFailedKeepsSchema ==
    (RunReturned /\ Len(Suite) > 0 /\ bad_indices = {}) =>
        /\ len(df_failed) = 0
        /\ df_failed.columns = Append(df.columns, "Failure_Reason")

\* C12: range rule semantics.  When the only rule of the session was registered
\* by the last call, add_price_validation or add_custom_range_validation with
\* bounds min_value and max_value, the run that follows flags exactly the rows
\* whose value is non-null and below min_value (when given) or above max_value
\* (when given, whatever its sign).
C12_RangeSemantics ==
    [][(/\ result_format = "COMPLETE"
        /\ ret.op \in {"add_price_validation", "add_custom_range_validation"}
        /\ ret.raised = ""
        /\ Len(Suite) = 1
        /\ ret'.op = "run_validation") =>
          bad_indices' =
              Labels(df, {i \in 1..len(df) :
                  /\ Cell(df, ret.args.column, i) # Null
                  /\ \/ /\ ret.args.min_value # Null
                        /\ Val(Cell(df, ret.args.column, i)) < Val(ret.args.min_value)
                     \/ /\ ret.args.max_value # Null
                        /\ Val(Cell(df, ret.args.column, i)) > Val(ret.args.max_value)})]_vars

\* C13: set rule semantics.  Every set rule the last validate() evaluated, with
\* index lists reported, flags exactly the rows whose value is not an element of
\* the allowed set, a null value counting as a value that is not in the set.
C13_MemberOfSemantics ==
    (results # None /\ result_format = "COMPLETE") =>
        \A k \in 1..Len(ResultSuite) :
            ResultSuite[k].expectation_type = InSet =>
                Reported(k) =
                    Labels(df, {i \in 1..len(df) :
                        \/ Cell(df, ResultSuite[k].column, i) = Null
                        \/ Val(Cell(df, ResultSuite[k].column, i))
                               \notin ResultSuite[k].value_set})

C15_EmptyDataset ==
    (RunReturned /\ Len(Suite) > 0) =>
        /\ len(df) = 0 =>
              /\ len(df_clean) = 0
              /\ len(df_failed) = 0
              /\ RateEquals(ret.value.pass_rate, 0)
              /\ ret.value.success
        /\ len(df) > 0 =>
              ret.value.pass_rate.num * ret.value.total_rows
                  = 100 * ret.value.clean_rows * ret.value.pass_rate.den

\* C15 witness: a run of two rules on the dataset of 0 rows.
C15_Witness ==
    /\ RunReturned
    /\ len(df) = 0
    /\ Len(Suite) = 2
    /\ ret.value.total_rows = 0

\* C16: after every run that returned, the rows with recorded messages are the
\* rows of bad_indices, each with one message per rule that flagged it, and each
\* row of the failed frame has as Failure_Reason its recorded messages joined
\* with "; ", never "Unknown".
C16_ReasonNeverUnknown ==
    RunReturned =>
        /\ DOMAIN failure_details = bad_indices
        /\ \A x \in bad_indices :
              Len(failure_details[x])
                  = Cardinality({k \in 1..Len(ResultSuite) : x \in Reported(k)})
        /\ \A k \in 1..len(df_failed) :
              /\ df_failed.index[k] \in DOMAIN failure_details
              /\ df_failed.data[k]["Failure_Reason"] = join(failure_details[df_failed.index[k]])
              /\ df_failed.data[k]["Failure_Reason"] # "Unknown"

\* What the aggregation loop of a session just created computes for a suite.
FreshAggregate(frame, format, suite) ==
    Aggregate(Validate(frame, format, suite).results, {}, <<>>)

\* What run_validation leaves and returns in a session just created, in which
\* the suite was registered before this single run.
FreshRun(frame, format, suite) ==
    LET res == Validate(frame, format, suite)
        agg == FreshAggregate(frame, format, suite)
        failed == FailedFrame(frame, agg.bad_indices, agg.failure_details)
        clean == CleanFrame(frame, agg.bad_indices)
    IN  [bad_indices |-> agg.bad_indices,
         failure_details |-> agg.failure_details,
         df_failed |-> failed,
         df_clean |-> clean,
         summary |-> generate_summary(res, frame, clean, failed)]

\* C17: re-run fully recomputes.  A run_validation that returns after a run and
\* the registration of a rule leaves the rule set as it is and gives the clean
\* frame, failed frame, per-row messages, bad_indices and summary a fresh
\* session with the same rules gives in its single run.
C17_RerunRecomputes ==
    [][(/\ results # None
        /\ ret.op \in AddOps
        /\ ret.raised = ""
        /\ ret'.op = "run_validation"
        /\ ret'.raised = "") =>
          /\ validator' = validator
          /\ bad_indices' = FreshRun(df, result_format, Suite).bad_indices
          /\ failure_details' = FreshRun(df, result_format, Suite).failure_details
          /\ df_failed' = FreshRun(df, result_format, Suite).df_failed
          /\ df_clean' = FreshRun(df, result_format, Suite).df_clean
          /\ ret'.value = FreshRun(df, result_format, Suite).summary]_vars

\* C17 witness: a run flagged rows and recorded messages, then a second rule was
\* registered, with which the flagged rows come out different.
C17_Witness ==
    /\ results # None
    /\ Len(ResultSuite) = 1
    /\ Len(Suite) = 2
    /\ ret.op \in AddOps
    /\ ret.raised = ""
    /\ bad_indices # {}
    /\ FreshAggregate(df, result_format, Suite).bad_indices # bad_indices

\* C18: an add_* call on a session that has completed a run, returning or
\* raising, leaves the dataset, the clean frame, the failed frame, bad_indices
\* and the per-row messages as they were.
C18_AddRuleFrame ==
    [][(session_state = "Validated" /\ ret'.op \in AddOps) =>
          /\ df' = df
          /\ df_clean' = df_clean
          /\ df_failed' = df_failed
          /\ bad_indices' = bad_indices
          /\ failure_details' = failure_details]_vars

\* C18 witness: after a run that split the rows, add_unique_validation returned
\* and the suite holds a rule the run did not evaluate.
C18_Witness ==
    /\ session_state = "Validated"
    /\ ret.op = "add_unique_validation"
    /\ ret.raised = ""
    /\ Len(Suite) > Len(ResultSuite)
    /\ len(df_clean) > 0
    /\ len(df_failed) > 0

\* C19: rule-order independence.  When a second rule is registered after a
\* first, a run flags the same rows, keeps the same clean rows and counts the
\* same as in a session where the two rules were registered in the other order.
C19_RuleOrderIndependent ==
    [][(Len(Suite) = 1 /\ ret'.op \in AddOps /\ ret'.raised = "") =>
          \A b \in 1..Len(Suite') :
              Suite' = AddExpectation(Suite, Suite'[b]) =>
                  LET other == AddExpectation(<<Suite'[b]>>, Suite[1])
                      here == FreshAggregate(df, result_format, Suite').bad_indices
                      there == FreshAggregate(df, result_format, other).bad_indices
                  IN  /\ here = there
                      /\ CleanFrame(df, here) = CleanFrame(df, there)]_vars

\* C20: the clean frame holds exactly the rows of the dataset whose label is
\* not in bad_indices, in the dataset's order and under their own labels.
C20_CleanRowsKeepOrderAndLabels ==
    RunReturned =>
        LET keep == list({i \in 1..len(df) : df.index[i] \notin bad_indices})
        IN  /\ df_clean.columns = df.columns
            /\ df_clean.index = [k \in 1..Len(keep) |-> df.index[keep[k]]]
            /\ df_clean.data = [k \in 1..Len(keep) |-> df.data[keep[k]]]

\* C20 witness: of the rows labelled 1 and 2 the run flagged row 1; the clean
\* frame is row 2 under its label.
C20_Witness ==
    /\ RunReturned
    /\ df.index = <<1, 2>>
    /\ bad_indices = {1}
    /\ df_clean.index = <<2>>

====
